---- MODULE Spec2Model ----
(***************************************************************************)
(* Month-view calendar (src/main.rs): the grid builder load_calendar, the  *)
(* renderer run_calendar, and the navigation state of main (the captured   *)
(* year, the captured mutable month and the next-month callback).          *)
(*                                                                         *)
(* The two calendar crates the program calls are modelled by what they     *)
(* compute: datetimeutils (month_from_index, days_in_month, month_string)  *)
(* and chrono (NaiveDate::from_ymd_opt, weekday).                          *)
(***************************************************************************)
EXTENDS Integers, Sequences, FiniteSets, TLC

\* ------------------------------------------------------------------ bounds
\* Years 1..MaxSmallYear exercise the previous-year computation at year 1.
MaxSmallYear == 3
\* Years 2000..2000+YearSpan: 28 consecutive years hold all 14 calendars
\* (weekday of 1 January x leap / common year).
YearSpan == 27

Years == (1..MaxSmallYear) \cup {1900} \cup (2000..(2000 + YearSpan))

VARIABLES
    year,      \* main: `year`, captured by the on_next_month closure
    month,     \* main: `mut month`, captured and incremented by the closure
    status,    \* "init" before the first render, "running", or "panicked"
    clicks,    \* number of on_next_month invocations so far (history)
    ui_boxes,  \* the model last given to ui.set_boxes
    ui_month,  \* the string last given to ui.set_month
    ui_year    \* the string last given to ui.set_year

vars == <<year, month, status, clicks, ui_boxes, ui_month, ui_year>>

\* ------------------------------------------------------- Option / Result
Ok(v) == [ok |-> TRUE, val |-> v]
Fail == [ok |-> FALSE, val |-> "panic"]

\* ------------------------------------------------------------- Weekday
\* chrono::Weekday, listed by num_days_from_sunday.
Weekdays == <<"Sun", "Mon", "Tue", "Wed", "Thu", "Fri", "Sat">>

\* Weekday::num_days_from_sunday: Sun = 0 .. Sat = 6.
WeekdayIndex(weekday) == (CHOOSE i \in 1..7 : Weekdays[i] = weekday) - 1

\* ------------------------------------------------------- datetimeutils
MonthNames == <<"January", "February", "March", "April", "May", "June",
                "July", "August", "September", "October", "November",
                "December">>

is_leap_year(y) == y % 4 = 0 /\ (y % 100 # 0 \/ y % 400 = 0)

\* Result<Month, &str>: Ok for 1..12, Err otherwise.
month_from_index(index) ==
    IF index \in 1..12 THEN Ok(MonthNames[index]) ELSE Fail

days_in_month(y, m) ==
    CASE m = "February" -> IF is_leap_year(y) THEN 29 ELSE 28
      [] m \in {"April", "June", "September", "November"} -> 30
      [] OTHER -> 31

month_string(m) == m

\* ---------------------------------------------------------------- chrono
\* Days of the common year before the first of each month.
DaysBeforeMonth == <<0, 31, 59, 90, 120, 151, 181, 212, 243, 273, 304, 334>>

chrono_leap(y) == (y % 4 = 0 /\ y % 100 # 0) \/ y % 400 = 0

chrono_ndays(y, m) ==
    IF m = 2 THEN (IF chrono_leap(y) THEN 29 ELSE 28)
    ELSE IF m \in {4, 6, 9, 11} THEN 30 ELSE 31

\* Day number in the proleptic Gregorian calendar, 0001-01-01 = 1 (a Monday).
num_days_from_ce(y, m, d) ==
    365 * (y - 1) + ((y - 1) \div 4) - ((y - 1) \div 100) + ((y - 1) \div 400)
    + DaysBeforeMonth[m] + (IF m > 2 /\ chrono_leap(y) THEN 1 ELSE 0) + d

\* NaiveDate::from_ymd_opt: None unless the date exists.
from_ymd_opt(y, m, d) ==
    IF m \in 1..12 /\ d >= 1 /\ d <= chrono_ndays(y, m)
    THEN Ok(num_days_from_ce(y, m, d))
    ELSE Fail

\* NaiveDate::weekday
weekday_of(n) == Weekdays[(n % 7) + 1]

\* ------------------------------------------------------------- main.rs
\* get_last_days_of_prev_month for a grid whose first column is Monday.
get_last_days_of_prev_month_monday_first(weekday) ==
    CASE weekday = "Mon" -> 0
      [] weekday = "Tue" -> 1
      [] weekday = "Wed" -> 2
      [] weekday = "Thu" -> 3
      [] weekday = "Fri" -> 4
      [] weekday = "Sat" -> 5
      [] weekday = "Sun" -> 6

get_last_days_of_prev_month(weekday) ==
    CASE weekday = "Sun" -> 0
      [] weekday = "Mon" -> 1
      [] weekday = "Tue" -> 2
      [] weekday = "Wed" -> 3
      [] weekday = "Thu" -> 4
      [] weekday = "Fri" -> 5
      [] weekday = "Sat" -> 6

\* get_first_days_of_next_month counting one day too many.
get_first_days_of_next_month_off_by_one(weekday) ==
    CASE weekday = "Sun" -> 7
      [] weekday = "Mon" -> 6
      [] weekday = "Tue" -> 5
      [] weekday = "Wed" -> 4
      [] weekday = "Thu" -> 3
      [] weekday = "Fri" -> 2
      [] weekday = "Sat" -> 1

\* get_first_days_of_next_month with the table of the previous-month function.
get_first_days_of_next_month_unmirrored(weekday) ==
    CASE weekday = "Sun" -> 0
      [] weekday = "Mon" -> 1
      [] weekday = "Tue" -> 2
      [] weekday = "Wed" -> 3
      [] weekday = "Thu" -> 4
      [] weekday = "Fri" -> 5
      [] weekday = "Sat" -> 6

get_first_days_of_next_month(weekday) ==
    CASE weekday = "Sun" -> 6
      [] weekday = "Mon" -> 5
      [] weekday = "Tue" -> 4
      [] weekday = "Wed" -> 3
      [] weekday = "Thu" -> 2
      [] weekday = "Fri" -> 1
      [] weekday = "Sat" -> 0

NewBox(d) == [visible |-> TRUE, day |-> d]

\* VecModel::insert(index, value)
Insert(boxes, index, box) ==
    SubSeq(boxes, 1, index) \o <<box>> \o SubSeq(boxes, index + 1, Len(boxes))

\* The model after iterations i = 0 .. n-1 of insert_days' loop.
insert_iterations(boxes, start_day, n) ==
    LET after[k \in 0..n] ==
            IF k = 0 THEN boxes
            ELSE Insert(after[k - 1], k - 1, NewBox(start_day + (k - 1)))
    IN  after[n]

\* insert_days' loop, run on the model as it is when the loop is entered
\* (b is the value of `boxes`, evaluated once before the first iteration).
insert_loop(boxes, start_day, n) ==
    CHOOSE r \in {insert_iterations(b, start_day, n) : b \in {boxes}} : TRUE

\* The same iterations with boxes.insert(0, ..) in place of boxes.insert(i, ..).
insert_front_iterations(boxes, start_day, n) ==
    LET after[k \in 0..n] ==
            IF k = 0 THEN boxes
            ELSE Insert(after[k - 1], 0, NewBox(start_day + (k - 1)))
    IN  after[n]

insert_front_loop(boxes, start_day, n) ==
    CHOOSE r \in {insert_front_iterations(b, start_day, n) : b \in {boxes}} : TRUE

\* insert_days with every box inserted at index 0.
insert_days_at_front(boxes, days, start_day) ==
    insert_front_loop(boxes, start_day, days)

\* insert_days with the sequence starting one day late.
insert_days_late(boxes, days, start_day) ==
    insert_loop(boxes, start_day + 1, days)

insert_days(boxes, days, start_day) ==
    insert_loop(boxes, start_day, days)

get_week_day(y, m, d) ==
    LET date == from_ymd_opt(y, m, d)
    IN  IF date.ok THEN Ok(weekday_of(date.val)) ELSE Fail

\* generate_month reading the month number as a 0-based index.
generate_month_zero_based(y, m) ==
    LET current_month == month_from_index(m + 1)
    IN  IF current_month.ok THEN Ok(days_in_month(y, current_month.val)) ELSE Fail

generate_month(y, m) ==
    LET current_month == month_from_index(m)
    IN  IF current_month.ok THEN Ok(days_in_month(y, current_month.val)) ELSE Fail

\* load_calendar's previous month taken without stepping back a month.
prev_month_key_current(y, m) == <<y, m>>

\* (prev_year, prev_month) of load_calendar
prev_month_key(y, m) == IF m = 1 THEN <<y - 1, 12>> ELSE <<y, m - 1>>

load_calendar(boxes, y, m) ==
    LET days_of_month == generate_month(y, m)
    IN  IF ~days_of_month.ok THEN Fail
        ELSE
        LET last_weekday_of_month == get_week_day(y, m, days_of_month.val)
        IN  IF ~last_weekday_of_month.ok THEN Fail
            ELSE
            LET first_days_of_next_month ==
                    get_first_days_of_next_month(last_weekday_of_month.val)
                b1 == insert_days(boxes, first_days_of_next_month, 1)
                b2 == insert_days(b1, days_of_month.val, 1)
                prev == prev_month_key(y, m)
                first_weekday_of_month == get_week_day(y, m, 1)
            IN  IF ~first_weekday_of_month.ok THEN Fail
                ELSE
                LET last_days_of_prev_month ==
                        get_last_days_of_prev_month(first_weekday_of_month.val)
                    days_of_prev_month == generate_month(prev[1], prev[2])
                IN  IF ~days_of_prev_month.ok THEN Fail
                    ELSE
                    LET start_day == days_of_prev_month.val - last_days_of_prev_month
                    IN  Ok(insert_days(b2, last_days_of_prev_month, start_day + 1))

\* format!(" {}", year.to_string())
year_str(y) == " " \o ToString(y)

\* run_calendar that wraps a month past December instead of unwrapping.
run_calendar_wrapping(boxes, y, m) ==
    LET yy == IF m > 12 THEN y + 1 ELSE IF m < 1 THEN y - 1 ELSE y
        mm == IF m > 12 THEN m - 12 ELSE IF m < 1 THEN m + 12 ELSE m
        loaded == load_calendar(boxes, yy, mm)
    IN  [ok |-> TRUE, boxes |-> loaded.val,
         month |-> month_string(month_from_index(mm).val), year |-> year_str(yy)]

\* run_calendar: what the three ui setters receive, or the panic.
run_calendar(boxes, y, m) ==
    LET current_month == month_from_index(m)
        loaded == load_calendar(boxes, y, m)
    IN  IF ~loaded.ok \/ ~current_month.ok
        THEN [ok |-> FALSE, boxes |-> <<>>, month |-> "", year |-> ""]
        ELSE [ok |-> TRUE, boxes |-> loaded.val,
              month |-> month_string(current_month.val), year |-> year_str(y)]

\* The closure handing run_calendar the model the window already shows.
closure_boxes_shared(shown) == shown

\* The model the closure builds for each render: a new, empty VecModel.
closure_boxes(shown) == <<>>

\* The effect of one run_calendar call on the window and the process.
Render(r) ==
    IF r.ok
    THEN /\ status' = "running"
         /\ ui_boxes' = r.boxes
         /\ ui_month' = r.month
         /\ ui_year' = r.year
    ELSE /\ status' = "panicked"
         /\ UNCHANGED <<ui_boxes, ui_month, ui_year>>

\* ------------------------------------------------------------ behaviour
\* main up to the event loop: year and month are today's, nothing is shown.
Init ==
    /\ year \in Years
    /\ month \in 1..12
    /\ status = "init"
    /\ clicks = 0
    /\ ui_boxes = <<>>
    /\ ui_month = ""
    /\ ui_year = ""

\* main: run_calendar(&ui, new_boxes, year, month) on the empty shared model.
Main ==
    /\ status = "init"
    /\ Render(run_calendar(<<>>, year, month))
    /\ UNCHANGED <<year, month, clicks>>

\* The on_next_month callback.
NextMonth ==
    /\ status = "running"
    /\ month' = month + 1
    /\ clicks' = clicks + 1
    /\ Render(run_calendar(closure_boxes(ui_boxes), year, month'))
    /\ UNCHANGED year

Next == Main \/ NextMonth

Spec == Init /\ [][Next]_vars

\* run_calendar called with any month argument, in or out of 1..12.
CallInit ==
    /\ year \in Years
    /\ month \in 0..13
    /\ status = "init"
    /\ clicks = 0
    /\ ui_boxes = <<>>
    /\ ui_month = ""
    /\ ui_year = ""

CallSpec == CallInit /\ [][Next]_vars

\* ---------------------------------------------------------- properties
\* A grid is on display: the last run_calendar call returned.
Shown == status = "running"

\* The Gregorian length of month m of year y, written out from the rule.
GregorianDays(y, m) ==
    IF m = 2
    THEN (IF y % 4 = 0 /\ ~(y % 100 = 0 /\ y % 400 # 0) THEN 29 ELSE 28)
    ELSE IF m \in {4, 6, 9, 11} THEN 30 ELSE 31

\* Weekday indices (Sun = 0 .. Sat = 6) of the first and the last day of the
\* month on display.
FirstIdx == WeekdayIndex(get_week_day(year, month, 1).val)
LastIdx == WeekdayIndex(get_week_day(year, month, GregorianDays(year, month)).val)

\* The padding counts load_calendar computes for the month on display.
LeadingPadding == get_last_days_of_prev_month(get_week_day(year, month, 1).val)
TrailingPadding ==
    get_first_days_of_next_month(
        get_week_day(year, month, GregorianDays(year, month)).val)

\* The three segments of the grid, each ascending.
PrevDays == GregorianDays(IF month = 1 THEN year - 1 ELSE year,
                          IF month = 1 THEN 12 ELSE month - 1)
LeadingCells == [i \in 1..LeadingPadding |-> NewBox(PrevDays - LeadingPadding + i)]
CurrentCells == [i \in 1..GregorianDays(year, month) |-> NewBox(i)]
TrailingCells == [i \in 1..TrailingPadding |-> NewBox(i)]

\* C1: every next-month action hands the builder the calendar successor of
\* the pair before it: the month stays in 1..12 and the year is incremented
\* when the month passes from 12 to 1.
C1_Rollover ==
    [][month' # month =>
         /\ month' \in 1..12
         /\ <<year', month'>> =
                IF month = 12 THEN <<year + 1, 1>> ELSE <<year, month + 1>>]_vars

\* C2: load_calendar on an empty model yields the leading-padding cells, then
\* the current-month cells, then the trailing-padding cells, each ascending,
\* and that sequence is the one on display.
C2_SegmentOrder ==
    Shown =>
        /\ load_calendar(<<>>, year, month)
               = Ok(LeadingCells \o CurrentCells \o TrailingCells)
        /\ ui_boxes = LeadingCells \o CurrentCells \o TrailingCells

\* A grid with all three segments non-empty is displayed.
C2_Witness ==
    /\ Shown
    /\ LeadingPadding > 0
    /\ TrailingPadding > 0
    /\ Len(ui_boxes) > GregorianDays(year, month)

\* C3: the number of cells is leadingPadding + daysInMonth + trailingPadding,
\* a multiple of 7, between 28 and 42 inclusive.
C3_CellCount ==
    Shown =>
        /\ Len(ui_boxes) = LeadingPadding + generate_month(year, month).val
                           + TrailingPadding
        /\ Len(ui_boxes) % 7 = 0
        /\ Len(ui_boxes) >= 28
        /\ Len(ui_boxes) <= 42

\* The smallest grid: a 28-day February that starts on a Sunday.
C3_Witness == Shown /\ month = 2 /\ Len(ui_boxes) = 28

\* C4 as stated: leading-padding count + weekday index of day 1 is 0 mod 7.
C4_SumIsZeroMod7 == Shown => (LeadingPadding + FirstIdx) % 7 = 0

\* C4 amended: the leading-padding count equals the weekday index of day 1
\* (Sun = 0 .. Sat = 6), so their difference, not their sum, is 0 mod 7; the
\* cell after the padding is day 1.
C4_LeadingIsWeekdayIndex ==
    Shown =>
        /\ LeadingPadding = FirstIdx
        /\ (LeadingPadding - FirstIdx) % 7 = 0
        /\ ui_boxes[LeadingPadding + 1].day = 1

\* February 2024 starts on a Thursday: four cells of January are displayed.
C4_Witness == Shown /\ year = 2024 /\ month = 2 /\ LeadingPadding = 4

\* C5: trailing-padding count + weekday index of the last day of the month is
\* 6 mod 7, and the grid ends with that many cells numbered from 1.
C5_TrailingComplement ==
    Shown =>
        /\ (TrailingPadding + LastIdx) % 7 = 6
        /\ Len(ui_boxes) >= TrailingPadding
        /\ \A i \in 1..TrailingPadding :
               ui_boxes[Len(ui_boxes) - TrailingPadding + i].day = i

\* February 2023 ends on a Tuesday: four cells of March are displayed.
C5_Witness == Shown /\ year = 2023 /\ month = 2 /\ TrailingPadding = 4

\* C6: the cells at positions leadingPadding+1 .. leadingPadding+daysInMonth
\* carry the day numbers 1 .. daysInMonth in ascending order.
C6_CurrentMonthDays ==
    Shown =>
        /\ Len(ui_boxes) >= LeadingPadding + GregorianDays(year, month)
        /\ \A i \in 1..GregorianDays(year, month) :
               ui_boxes[LeadingPadding + i].day = i

\* The 29 days of February 2000 are displayed after two cells of January.
C6_Witness ==
    /\ Shown
    /\ year = 2000
    /\ month = 2
    /\ LeadingPadding = 2
    /\ ui_boxes[LeadingPadding + 29].day = 29

\* C7: a run_calendar call with a month outside 1..12 panics and leaves the
\* window as it was: no grid is displayed for such a month.
C7_FailFast ==
    [][month' \notin 1..12 =>
         /\ status' = "panicked"
         /\ UNCHANGED <<ui_boxes, ui_month, ui_year>>]_vars

\* The next-month handler reached month 13 from December and panicked; the
\* window still shows December.
C7_Witness ==
    /\ status = "panicked"
    /\ month = 13
    /\ clicks > 0
    /\ ui_month = "December"

\* C8: generate_month follows the Gregorian rule: February has 29 days in a
\* leap year and 28 otherwise, April, June, September and November have 30
\* days, every other month 31.
C8_GregorianDays ==
    /\ month \in 1..12 => generate_month(year, month) = Ok(GregorianDays(year, month))
    /\ generate_month(2024, 2) = Ok(29)
    /\ generate_month(2023, 2) = Ok(28)
    /\ generate_month(2000, 2) = Ok(29)
    /\ generate_month(1900, 2) = Ok(28)

\* February of the century year 1900 is displayed with 28 current-month days.
C8_Witness ==
    /\ Shown
    /\ year = 1900
    /\ month = 2
    /\ ui_boxes[LeadingPadding + 28].day = 28
    /\ ui_boxes[LeadingPadding + 29].day = 1

\* C9: the leading-padding cells carry the last leadingPadding day numbers of
\* the previous month, (year-1, 12) for January and (year, month-1) otherwise,
\* in ascending order; with no leading padding the grid starts at day 1.
C9_PrevMonthDays ==
    Shown =>
        /\ \A i \in 1..LeadingPadding :
               ui_boxes[i].day = PrevDays - LeadingPadding + i
        /\ LeadingPadding = 0 => ui_boxes[1].day = 1

\* March 2024 starts on a Friday: the grid opens with 25..29 February.
C9_Witness ==
    /\ Shown
    /\ year = 2024
    /\ month = 3
    /\ LeadingPadding = 5
    /\ ui_boxes[1].day = 25
    /\ ui_boxes[5].day = 29

\* C10: after any number of next-month actions the displayed model is the
\* grid of the displayed month built on an empty model: nothing of an earlier
\* render remains and the cell count does not grow.
C10_FreshGrid ==
    Shown =>
        /\ ui_boxes = load_calendar(<<>>, year, month).val
        /\ ui_month = MonthNames[month]
        /\ Len(ui_boxes) <= 42

\* A grid displayed after at least two next-month actions.
C10_Witness == Shown /\ clicks >= 2 /\ Len(ui_boxes) = 35

====
